---- MODULE Spec2Model ----
(***************************************************************************)
(* Model of the chat-export parser service (src/server.mjs).               *)
(*                                                                         *)
(* src/server.mjs holds three complete snapshots of the service:           *)
(*   snapshot 1  lines   1-392  (ingestCore, admission gate, shared        *)
(*                               browser, /api/pdf on the shared browser)  *)
(*   snapshot 2  lines 394-690  (adds warm-up, READY / WARMING)            *)
(*   snapshot 3  lines 692-989  (one browser process per call, no gate)    *)
(* The variable snap says which snapshot is the running program.           *)
(*                                                                         *)
(* Every action is one run-to-completion segment of a request: the code    *)
(* between two awaits that wait for the outside world (network, browser).  *)
(***************************************************************************)
EXTENDS Integers, Sequences, FiniteSets, TLC

\* ------------------------------------------------------------------ bounds
\* number of concurrent requests
NumCalls == 2
\* longest list of messages in a payload and of role-marked elements in a page
MaxItems == 1
\* the longest list of messages, and of role-marked elements, of the pages
\* that have one list only
MaxList == 3

VARIABLES
  snap,             \* which snapshot of server.mjs runs (1, 2 or 3)
  DRY_RUN,          \* process.env.DRY_RUN === "1"
  FORCE_PLAYWRIGHT, \* process.env.FORCE_PLAYWRIGHT === "1"
  MAX_CONCURRENCY,  \* Number(process.env.CONCURRENCY || 1)
  PW_BROWSER,       \* the shared browser handle: 0 = null, n = the n-th process
  INFLIGHT,         \* the admission counter
  READY,            \* snapshot 2: warm-up completed
  WARMING,          \* snapshot 2: a coalesced warm-up is in flight
  running,          \* number of browser processes that are running
  contexts,         \* number of browser contexts that are open
  calls,            \* per request: route, position and what it did
  html,             \* the page the extractors read: embedded payload and elements
  ppc,              \* where the extraction of html is
  probed,           \* extractTurnsFromPossibleJSON was applied to html.json
  out,              \* what extractTurnsFromPossibleJSON returned
  parsed,           \* ingestCore's parsed: the strategy and its turns
  body,             \* the response of ingestCore: status and turns
  ready,            \* the rendered stage: navigation done, and how the waits
                    \* for the payload script and for the elements ended
  proc,             \* the Node process: up, closing (a signal handler awaits
                    \* browser.close()), exited (process.exit) or killed
  handlers          \* the signals that have a process.once listener

vars == <<snap, DRY_RUN, FORCE_PLAYWRIGHT, MAX_CONCURRENCY, PW_BROWSER, INFLIGHT,
          READY, WARMING, running, contexts, calls,
          html, ppc, probed, out, parsed, body, ready, proc, handlers>>

config == <<snap, DRY_RUN, FORCE_PLAYWRIGHT, MAX_CONCURRENCY>>

service == <<PW_BROWSER, INFLIGHT, READY, WARMING, running, contexts, calls,
            proc, handlers>>

extraction == <<html, ppc, probed, out, parsed, body, ready>>

\* ------------------------------------------------------------------ inputs
Boot == 0
Calls == 1..NumCalls
Procs == IF snap = 2 THEN {Boot} \cup Calls ELSE Calls

IngestRoutes == {"ingest", "ingest_b64"}
RoutesOf(s) == IF s = 1 THEN IngestRoutes \cup {"pdf"}
               ELSE IF s = 2 THEN IngestRoutes
               ELSE {"ingest", "pdf"}

EmptyUrl == [scheme |-> "", host |-> "", port |-> "", path |-> ""]
ShareUrl == [scheme |-> "https", host |-> "chatgpt.com", port |-> "", path |-> "/share/"]
OtherUrl == [scheme |-> "https", host |-> "example.com", port |-> "", path |-> "/share/"]
Urls == {EmptyUrl, ShareUrl, OtherUrl}

\* every URL the allow-list check is tried on: written in lower case, with or
\* without a port, with a path that begins with /share/ or another path
Schemes == {"http", "https", "ftp"}
Hosts == {"chatgpt.com", "chat.openai.com", "example.com", "chatgpt.com.example.com"}
AllUrls == {EmptyUrl} \cup [scheme : Schemes, host : Hosts, port : {"", "443"},
                            path : {"/share/", "/"}]

\* HTTP status of the static fetch; 0 stands for fetch() throwing (network error)
NetworkError == 0
FetchOutcomes == {200, 403, 500, NetworkError}

\* a fetched or rendered page, by what the two extractors find in it:
\* s: the embedded payload yields at least one turn; d: the role-marked
\* elements yield at least one turn
Pages == [s : BOOLEAN, d : BOOLEAN]

\* for (const sig of ["SIGINT", "SIGTERM", "SIGQUIT"])
Signals == {"SIGINT", "SIGTERM", "SIGQUIT"}
NoPage == [s |-> FALSE, d |-> FALSE]

\* ------------------------------------------------------------------ text
\* a string is a sequence of characters; NBSP stands for U+00A0
NBSP == "nbsp"

IsSpace(ch) == ch \in {" ", "\n", NBSP}

RECURSIVE TrimStart(_)
TrimStart(s) == IF s # <<>> /\ IsSpace(Head(s)) THEN TrimStart(Tail(s)) ELSE s

RECURSIVE TrimEnd(_)
TrimEnd(s) ==
  IF s # <<>> /\ IsSpace(s[Len(s)]) THEN TrimEnd(SubSeq(s, 1, Len(s) - 1)) ELSE s

\* String.prototype.trim
trim(s) == TrimEnd(TrimStart(s))

\* clean = s => (s || "").replace(/\u00A0/g, " ").trim()
clean(s) == trim([i \in 1..Len(s) |-> IF s[i] = NBSP THEN " " ELSE s[i]])

\* Array.prototype.join
RECURSIVE Join(_, _)
Join(ps, sep) ==
  IF ps = <<>> THEN <<>>
  ELSE IF Len(ps) = 1 THEN ps[1]
  ELSE ps[1] \o sep \o Join(Tail(ps), sep)

SeqsUpTo(S, n) == UNION {[1..k -> S] : k \in 0..n}

\* ------------------------------------------------------------------ payload
\* a JavaScript value read from a message: undefined, a string, a list of
\* strings (parts) or another object
Undefined == [k |-> "undefined", v |-> <<>>]
Str(s) == [k |-> "string", v |-> s]
Parts(ps) == [k |-> "array", v |-> ps]

\* m.content: undefined, a string, or an object with optional parts and text
NoContent == [k |-> "undefined", v |-> <<>>, parts |-> Undefined, text |-> Undefined]
StrContent(s) == [k |-> "string", v |-> s, parts |-> Undefined, text |-> Undefined]
ObjContent(parts, text) == [k |-> "object", v |-> <<>>, parts |-> parts, text |-> text]

Nullish(x) == x.k = "undefined"
Truthy(x) == x.k \in {"object", "array"} \/ (x.k = "string" /\ x.v # <<>>)

\* String(x)
ToStr(x) ==
  IF x.k = "string" THEN x.v
  ELSE IF x.k = "object" THEN <<"[object Object]">>
  ELSE IF x.k = "array" THEN Join(x.v, <<",">>)
  ELSE <<"undefined">>

\* a message: m.author.role, m.role ("" when absent), m.content, m.text
Msg(ar, r, c, t) == [arole |-> ar, role |-> r, content |-> c, text |-> t]
NoMsg == Msg("", "", NoContent, Undefined)

Texts == {<<>>, <<" ">>, <<"a">>, <<" ", "a", NBSP>>}

MessagesWith(ar, r, t) ==
  { Msg(ar, r, NoContent, Str(t)),
    Msg(ar, r, StrContent(t), Undefined),
    Msg(ar, r, ObjContent(Undefined, Str(t)), Undefined),
    Msg(ar, r, ObjContent(Parts(<<t>>), Undefined), Undefined),
    Msg(ar, r, ObjContent(Parts(<<t, <<"b">>>>), Str(<<"c">>)), Undefined),
    Msg(ar, r, ObjContent(Undefined, Undefined), Str(t)) }

Messages ==
  UNION { MessagesWith(ar, r, t) : ar \in {"", "user"}, r \in {"", "assistant"},
                                   t \in Texts }

\* the messages of the payloads with two probes present
SampleUser == Msg("user", "", ObjContent(Parts(<< <<"a">> >>), Undefined), Undefined)
SampleAssistant == Msg("", "assistant", StrContent(<<" ", "b", NBSP>>), Undefined)
SampleBlank == Msg("user", "", NoContent, Str(<<" ">>))
\* a message whose role is none of user, assistant, system, tool, unknown
SampleOther == Msg("", "critic", StrContent(<<"a">>), Undefined)
Samples == {SampleUser, SampleAssistant, SampleBlank, SampleOther}

\* a value of a keyed mapping: v.message if it has one, and its own fields
Own(m) == [has |-> FALSE, message |-> NoMsg, self |-> m]
Wrapped(m) == [has |-> TRUE, message |-> m, self |-> NoMsg]

\* what a probe path leads to: nothing, a falsy value, a number or string,
\* a list of messages, or a keyed mapping (its values in key order)
NodeAbsent == [k |-> "undefined", list |-> <<>>, values |-> <<>>]
NodeNull == [k |-> "null", list |-> <<>>, values |-> <<>>]
NodeScalar == [k |-> "scalar", list |-> <<>>, values |-> <<>>]
ArrayNode(ms) == [k |-> "array", list |-> ms, values |-> <<>>]
ObjectNode(vs) == [k |-> "object", list |-> <<>>, values |-> vs]

\* mutant of paths: the generic paths are probed before the nested ones
pathsGenericFirst == << "turns",
                        "messages",
                        "state.conversation.messages",
                        "props.pageProps.sharedConversation.mapping",
                        "props.pageProps.serverResponse.messages" >>

\* const paths = [...]: the probes, in the order they are tried
paths == << "props.pageProps.serverResponse.messages",
            "props.pageProps.sharedConversation.mapping",
            "state.conversation.messages",
            "messages",
            "turns" >>

PathNames == {paths[i] : i \in DOMAIN paths}

EmptyJson == [p \in PathNames |-> NodeAbsent]

\* payloads with one probe present that holds one message
OneMessageNodes ==
  UNION { {ArrayNode(<<m>>), ObjectNode(<<Own(m)>>), ObjectNode(<<Wrapped(m)>>)} :
          m \in Messages }

\* payloads with up to two probes present
SmallNodes ==
  {NodeNull, NodeScalar}
    \cup {ArrayNode(ms) : ms \in SeqsUpTo(Samples, MaxItems)}
    \cup {ObjectNode(vs) : vs \in SeqsUpTo({Wrapped(m) : m \in Samples}, MaxItems)}

\* payloads with one probe present that holds a list of up to MaxList
\* messages, equal messages and blank messages included
ListNodes == {ArrayNode(ms) : ms \in SeqsUpTo(Samples, MaxList)}

Jsons ==
  {[EmptyJson EXCEPT ![p] = nd] : p \in PathNames, nd \in OneMessageNodes \cup ListNodes}
    \cup {[EmptyJson EXCEPT ![p] = a, ![q] = b] :
            p \in PathNames, q \in PathNames, a \in SmallNodes, b \in SmallNodes}

\* ------------------------------------------------------------------ markup
\* a child of a role-marked element: a text node or a pre block
TextKid(t) == [pre |-> FALSE, text |-> t]
PreKid(t) == [pre |-> TRUE, text |-> t]

\* an element with a data-message-author-role attribute ("" when it is empty)
El(role, kids) == [role |-> role, kids |-> kids]

DomEls ==
  { El("user", <<TextKid(<<"a">>)>>),
    El("", <<TextKid(<<" ", "a">>)>>),
    El("user", <<TextKid(<<NBSP>>)>>),
    El("assistant", <<TextKid(<<"a">>), PreKid(<<"c">>)>>),
    El("user", <<PreKid(<<>>)>>),
    El("critic", <<TextKid(<<"a">>)>>) }

Doms == SeqsUpTo(DomEls, MaxItems)

\* pages with up to MaxList role-marked elements
ListDoms == SeqsUpTo(DomEls, MaxList)

\* the pages: an embedded payload without role-marked elements, or
\* role-marked elements without a payload that yields anything
EmptyHtml == [json |-> EmptyJson, dom |-> <<>>]

Htmls == {[json |-> j, dom |-> <<>>] : j \in Jsons}
           \cup {[json |-> EmptyJson, dom |-> d] : d \in Doms \cup ListDoms}

NoParsed == [via |-> "none", turns |-> <<>>]
NoBody == [status |-> 0, turns |-> <<>>]

\* page.waitForSelector(...) resolves, times out after 8000 ms, or throws
\* another error; NotWaited: the wait was not reached
NotWaited == "none"
WaitOutcomes == {"resolved", "timeout", "threw"}
NoReady == [nav |-> FALSE, s |-> NotWaited, d |-> NotWaited]

\* ------------------------------------------------------------------ extractors
\* const role = m?.author?.role || m?.role
ResolveRole(m) == IF m.arole # "" THEN m.arole ELSE m.role

\* Array.isArray(parts) ? parts.join("\n\n")
\*                      : m?.content?.text ?? m?.content ?? m?.text
\* (snapshot 3 ends the chain with ?? "")
ResolveText(m) ==
  LET c == m.content
      t == IF c.parts.k = "array" THEN Str(Join(c.parts.v, <<"\n", "\n">>))
           ELSE IF ~Nullish(c.text) THEN c.text
           ELSE IF ~Nullish(c) THEN c
           ELSE m.text
  IN IF snap = 3 /\ Nullish(t) THEN Str(<<>>) ELSE t

\* const t = String(text ?? "").trim(); if (role && t) out.push({role, content: t})
\* snapshot 3: if (role && text) out.push({role, content: clean(String(text))})
push(o, role, text) ==
  IF snap = 3
  THEN IF role # "" /\ Truthy(text)
       THEN Append(o, [role |-> role, content |-> clean(ToStr(text))])
       ELSE o
  ELSE LET t == trim(ToStr(IF Nullish(text) THEN Str(<<>>) ELSE text))
       IN IF role # "" /\ t # <<>>
          THEN Append(o, [role |-> role, content |-> t])
          ELSE o

\* for (const m of node) push(role, text)
RECURSIVE PushAll(_, _)
PushAll(o, ms) ==
  IF ms = <<>> THEN o
  ELSE PushAll(push(o, ResolveRole(Head(ms)), ResolveText(Head(ms))), Tail(ms))

\* const msg = v?.message || v
Unwrap(v) == IF v.has THEN v.message ELSE v.self

\* the loop over paths, from the i-th path on, with the accumulator o
\* mutant of ProbeLoop: the loop does not return after a probe that yielded
\* turns, and the accumulator is carried through all the probes
RECURSIVE ProbeLoopAccumulate(_, _, _)
ProbeLoopAccumulate(json, i, o) ==
  IF i > Len(paths) THEN o
  ELSE LET node == json[paths[i]] IN
       IF node.k = "array"
       THEN ProbeLoopAccumulate(json, i + 1, PushAll(o, node.list))
       ELSE IF node.k = "object"
       THEN ProbeLoopAccumulate(json, i + 1,
              PushAll(o, [n \in DOMAIN node.values |-> Unwrap(node.values[n])]))
       ELSE ProbeLoopAccumulate(json, i + 1, o)

RECURSIVE ProbeLoop(_, _, _)
ProbeLoop(json, i, o) ==
  IF i > Len(paths) THEN o
  ELSE LET node == json[paths[i]] IN
       IF node.k \in {"undefined", "null"} THEN ProbeLoop(json, i + 1, o)
       ELSE IF node.k = "array"
       THEN LET o1 == PushAll(o, node.list)
            IN IF Len(o1) > 0 THEN o1 ELSE ProbeLoop(json, i + 1, o1)
       ELSE IF node.k = "object"
       THEN LET o1 == PushAll(o, [n \in DOMAIN node.values |-> Unwrap(node.values[n])])
            IN IF Len(o1) > 0 THEN o1 ELSE ProbeLoop(json, i + 1, o1)
       ELSE ProbeLoop(json, i + 1, o)

extractTurnsFromPossibleJSON(json) == ProbeLoop(json, 1, <<>>)

\* the three backticks of a fence, as one character
Fence == <<"fence">>

\* $(el).text() after every pre was replaced by its fenced text (snapshot 2
\* does not replace the pre blocks)
RECURSIVE ElText(_)
ElText(kids) ==
  IF kids = <<>> THEN <<>>
  ELSE LET kid == Head(kids)
           t == IF kid.pre /\ snap # 2
                THEN Fence \o <<"\n">> \o kid.text \o <<"\n">> \o Fence
                ELSE kid.text
       IN t \o ElText(Tail(kids))

\* nodes.each: role = attr || "assistant"; text = clean(text); if (text) push
RECURSIVE DomTurns(_)
DomTurns(dom) ==
  IF dom = <<>> THEN <<>>
  ELSE LET el == Head(dom)
           role == IF el.role # "" THEN el.role ELSE "assistant"
           text == clean(ElText(el.kids))
       IN (IF text # <<>> THEN <<[role |-> role, content |-> text]>> ELSE <<>>)
            \o DomTurns(Tail(dom))

\* the turns of extractFromDomHTML(html); <<>> stands for null
extractFromDomHTML(dom) == DomTurns(dom)

\* snapshot 3: the scrape inside the page: content = textContent.trim(),
\* filter(t => t.content)
RECURSIVE ScrapeTurns(_)
ScrapeTurns(dom) ==
  IF dom = <<>> THEN <<>>
  ELSE LET el == Head(dom)
           role == IF el.role # "" THEN el.role ELSE "assistant"
           text == trim(ElText(el.kids))
       IN (IF text # <<>> THEN <<[role |-> role, content |-> text]>> ELSE <<>>)
            \o ScrapeTurns(Tail(dom))

\* turns: parsed.turns.map((t, i) => ({role, content, ord: i}))
WithOrd(turns) ==
  [i \in DOMAIN turns |->
     [role |-> turns[i].role, content |-> turns[i].content, ord |-> i - 1]]

\* ------------------------------------------------------------------ document
\* POST /api/pdf: the body { title, turns } and the markup built from it
LowerCase == <<"a", "b", "c", "d", "e", "f", "g", "h", "i", "j", "k", "l", "m",
               "n", "o", "p", "q", "r", "s", "t", "u", "v", "w", "x", "y", "z">>
UpperCase == <<"A", "B", "C", "D", "E", "F", "G", "H", "I", "J", "K", "L", "M",
               "N", "O", "P", "Q", "R", "S", "T", "U", "V", "W", "X", "Y", "Z">>
Digits == {"0", "1", "2", "3", "4", "5", "6", "7", "8", "9"}

IndexIn(ch, alphabet) == CHOOSE i \in DOMAIN alphabet : alphabet[i] = ch

\* String.prototype.toLowerCase / toUpperCase
toLowerCase(s) ==
  [i \in DOMAIN s |-> IF \E k \in DOMAIN UpperCase : UpperCase[k] = s[i]
                      THEN LowerCase[IndexIn(s[i], UpperCase)] ELSE s[i]]

toUpperCase(s) ==
  [i \in DOMAIN s |-> IF \E k \in DOMAIN LowerCase : LowerCase[k] = s[i]
                      THEN UpperCase[IndexIn(s[i], LowerCase)] ELSE s[i]]

\* the characters escapeHtml replaces, and what it replaces them by
HtmlSpecials == {"&", "<", ">", "\"", "'"}

EscapeOf(ch) ==
  IF ch = "&" THEN "&amp;"
  ELSE IF ch = "<" THEN "&lt;"
  ELSE IF ch = ">" THEN "&gt;"
  ELSE IF ch = "\"" THEN "&quot;"
  ELSE "&#39;"

\* escapeHtml = s => String(s).replace(/[&<>"']/g, m => ({...}[m]))
escapeHtml(s) == [i \in DOMAIN s |-> IF s[i] \in HtmlSpecials THEN EscapeOf(s[i]) ELSE s[i]]

\* .replace(/```([\s\S]*?)```/g, (_m, code) => `<pre><code>${escapeHtml(code)}</code></pre>`)
\* a fence is closed by the nearest fence after it; a fence with no fence
\* after it, and every character outside a pair of fences, is left as it is
RECURSIVE ReplaceFences(_)
ReplaceFences(s) ==
  IF s = <<>> THEN <<>>
  ELSE IF Head(s) = Fence[1] /\ \E j \in 2..Len(s) : s[j] = Fence[1]
  THEN LET j == CHOOSE k \in 2..Len(s) :
                  s[k] = Fence[1] /\ \A m \in 2..(k - 1) : s[m] # Fence[1]
       IN <<"<pre><code>">> \o escapeHtml(SubSeq(s, 2, j - 1)) \o <<"</code></pre>">>
            \o ReplaceFences(SubSeq(s, j + 1, Len(s)))
  ELSE <<Head(s)>> \o ReplaceFences(Tail(s))

\* formatRich = text => String(text).replace(fences).replace(/\n/g, "<br/>")
formatRich(s) ==
  LET r == ReplaceFences(s) IN [i \in DOMAIN r |-> IF r[i] = "\n" THEN "<br/>" ELSE r[i]]

\* .replace(/[^a-z0-9]+/g, "-")
RECURSIVE Hyphenate(_)
Hyphenate(s) ==
  IF s = <<>> THEN <<>>
  ELSE LET alnum(ch) == ch \in Digits \/ \E k \in DOMAIN LowerCase : LowerCase[k] = ch
           rest == Hyphenate(Tail(s))
       IN IF alnum(Head(s)) THEN <<Head(s)>> \o rest
          ELSE IF rest # <<>> /\ Head(rest) = "-" /\ ~alnum(s[2]) THEN rest
          ELSE <<"-">> \o rest

\* .replace(/(^-|-$)/g, "")
StripHyphens(s) ==
  LET a == IF s # <<>> /\ Head(s) = "-" THEN Tail(s) ELSE s
  IN IF a # <<>> /\ a[Len(a)] = "-" THEN SubSeq(a, 1, Len(a) - 1) ELSE a

Conversation == <<"c", "o", "n", "v", "e", "r", "s", "a", "t", "i", "o", "n">>

\* slug = s => (s || "conversation").toLowerCase().replace(...).replace(...)
slug(title) ==
  StripHyphens(Hyphenate(toLowerCase(IF Truthy(title) THEN title.v ELSE Conversation)))

\* one element of turns: { role, content }
Turn(role, content) == [role |-> role, content |-> content]

\* the request body: title and turns are JavaScript values
PdfBody(title, turns) == [title |-> title, turns |-> turns]
NoPdfBody == PdfBody(Undefined, Undefined)
SamplePdfBody == PdfBody(Str(<<"T">>), Parts(<<>>))

\* bodies up to MaxTitle title characters and MaxItems turns: every title with
\* no turns, and one title with every list of turns and with no list
MaxTitle == 2
TitleChars == {"A", "1", "!", "-", "<"}
PdfTitles == {Undefined} \cup {Str(t) : t \in SeqsUpTo(TitleChars, MaxTitle)}
PdfTexts == {<<>>, <<"a">>, <<"<">>, <<"a", "\n", "&">>, <<"fence", "<", "fence">>,
             <<"fence", "a", "fence", ">">>, <<"fence", "\"">>}
PdfRoles == {Undefined, Str(<<"u", "s", "e", "r">>), Str(<<"'">>)}
PdfTurns == {Turn(r, c) : r \in PdfRoles, c \in {Undefined} \cup {Str(t) : t \in PdfTexts}}
PdfBodies ==
  {PdfBody(t, Parts(<<>>)) : t \in PdfTitles}
    \cup {PdfBody(Str(<<"T">>), x) :
            x \in {Undefined, Str(<<"a">>)} \cup {Parts(ts) : ts \in SeqsUpTo(PdfTurns, MaxItems)}}

\* mutant of PdfValid: the title is not tested
PdfValidAnyTitle(b) == b.turns.k = "array"

\* if (!title || !Array.isArray(turns)) return res.status(400)
PdfValid(b) == ~(~Truthy(b.title) \/ ~(b.turns.k = "array"))

\* one turn section of the template
Section(t) ==
  <<"<div class=turn>", "<div class=role>">>
    \o escapeHtml(IF snap = 3 THEN toUpperCase(ToStr(t.role)) ELSE ToStr(t.role))
    \o <<"</div>", "<div class=bubble>">>
    \o formatRich(IF Truthy(t.content) THEN ToStr(t.content) ELSE <<>>)
    \o <<"</div>", "</div>">>

RECURSIVE Sections(_)
Sections(ts) == IF ts = <<>> THEN <<>> ELSE Section(Head(ts)) \o Sections(Tail(ts))

\* const html = `<!doctype html>...`: the template with the title, the
\* export time and one section per turn
BuildMarkup(b) ==
  <<"<!doctype html><html><head>...</head><body>", "<h1>">>
    \o escapeHtml(ToStr(b.title))
    \o <<"</h1>", "<div>", "Exported", "nowIso", "</div>">>
    \o Sections(b.turns.v)
    \o <<"</body></html>">>

\* what a call keeps of its renderPdf input: the body, the markup handed to
\* page.setContent and the name in the Content-Disposition header
NoPdf == [body |-> NoPdfBody, markup |-> <<>>, filename |-> <<>>]

\* ------------------------------------------------------------------ helpers
\* mutant of isChatGPTShare: only the host is tested
isChatGPTShareHostOnly(url) == url.host \in {"chatgpt.com", "chat.openai.com"}

\* /^https?:\/\/(chatgpt\.com|chat\.openai\.com)\/share\//i.test(url)
isChatGPTShare(url) ==
  /\ url.scheme \in {"http", "https"}
  /\ url.host \in {"chatgpt.com", "chat.openai.com"}
  /\ url.port = ""
  /\ url.path = "/share/"

ResponseOk(st) == st >= 200 /\ st <= 299

\* mutant of StaticParse: the role-marked elements are read first
StaticParseDomFirst(page) ==
  IF page.d THEN "static_dom"
  ELSE IF page.s THEN "static_structured"
  ELSE "none"

\* extractFromEmbeddedJSON(html) || extractFromDomHTML(html)
StaticParse(page) ==
  IF page.s THEN "static_structured"
  ELSE IF page.d THEN "static_dom"
  ELSE "none"

\* route: the entry point; pc: where the request is; fetch, page: what the
\* static fetch returned; parsed: the strategy whose turns are the result;
\* resp: the response sent; gets: GETs sent to the target; entered:
\* extractWithPlaywright was called; threw: the rendering threw; detail: what
\* the response tells about a fetched page or a fetch error; startFailed: a
\* chromium.launch() started for this call threw
NoDetail == [kind |-> "none", page |-> NoPage]

IdleCall == [route |-> "none", pc |-> "idle", url |-> EmptyUrl, debug |-> FALSE,
             fetch |-> -1, page |-> NoPage, parsed |-> "none", resp |-> "none",
             gets |-> 0, entered |-> FALSE, threw |-> FALSE, detail |-> NoDetail,
             startFailed |-> FALSE, pdf |-> NoPdf]

World == [PW_BROWSER |-> PW_BROWSER, INFLIGHT |-> INFLIGHT, READY |-> READY,
          WARMING |-> WARMING, running |-> running, contexts |-> contexts,
          calls |-> calls, handlers |-> handlers]

\* the process runs code until process.exit or until a signal kills it
Alive == proc \in {"up", "closing"}

Apply(w) ==
  /\ Alive
  /\ PW_BROWSER' = w.PW_BROWSER
  /\ INFLIGHT' = w.INFLIGHT
  /\ READY' = w.READY
  /\ WARMING' = w.WARMING
  /\ running' = w.running
  /\ contexts' = w.contexts
  /\ calls' = w.calls
  /\ handlers' = w.handlers
  /\ UNCHANGED <<config, extraction, proc>>

Finish(w, c, resp) == [w EXCEPT !.calls[c].pc = "done", !.calls[c].resp = resp]

\* ------------------------------------------------------------------ browser
\* getBrowser(): the handle if set, else a launch is started
GetBrowser(w, c, havePc, launchPc) ==
  IF w.PW_BROWSER # 0
  THEN [w EXCEPT !.calls[c].pc = havePc]
  ELSE [w EXCEPT !.calls[c].pc = launchPc]

\* mutant of GateOpen: the comparison is off by one
GateOpenOffByOne(inflight) == ~(inflight > MAX_CONCURRENCY)

\* while (INFLIGHT >= MAX_CONCURRENCY) await sleep
GateOpen(inflight) == ~(inflight >= MAX_CONCURRENCY)

\* mutant of LeaveExtract: the counter is released on the return paths only
LeaveExtractOnReturnOnly(w, c, threw) ==
  IF snap = 3 THEN [w EXCEPT !.running = @ - 1]
  ELSE IF threw THEN w
  ELSE [w EXCEPT !.INFLIGHT = @ - 1]

\* finally { INFLIGHT--; }   (snapshot 3: finally { await browser.close(); })
LeaveExtract(w, c, threw) ==
  IF snap = 3
  THEN [w EXCEPT !.running = @ - 1]
  ELSE [w EXCEPT !.INFLIGHT = @ - 1]

\* extractWithPlaywright(url) up to its first await
EnterExtract(w, c) ==
  LET w1 == [w EXCEPT !.calls[c].entered = TRUE] IN
  IF snap = 3
  THEN [w1 EXCEPT !.calls[c].pc = "launching"]
  ELSE IF ~GateOpen(w.INFLIGHT)
  THEN [w1 EXCEPT !.calls[c].pc = "sleep"]
  ELSE GetBrowser([w1 EXCEPT !.INFLIGHT = @ + 1], c, "newContext", "launching")

\* mutant of AfterExtract: the failure diagnostics do not test the debug flag
AfterExtractAlwaysDebug(w, c, p) ==
  IF p = "none"
  THEN IF snap = 1
       THEN [w EXCEPT !.calls[c].pc = "fetch2", !.calls[c].gets = @ + 1]
       ELSE Finish(w, c, "422_parse_failed")
  ELSE Finish([w EXCEPT !.calls[c].parsed = p], c, "200_conversation")

\* ingestCore after the extraction stages: failure diagnostics or the response
AfterExtract(w, c, p) ==
  IF p = "none"
  THEN IF snap = 1 /\ w.calls[c].debug
       THEN [w EXCEPT !.calls[c].pc = "fetch2", !.calls[c].gets = @ + 1]
       ELSE Finish(w, c, "422_parse_failed")
  ELSE Finish([w EXCEPT !.calls[c].parsed = p], c, "200_conversation")

ExtractReturn(w, c, p) == AfterExtract(LeaveExtract(w, c, FALSE), c, p)

\* an exception leaves extractWithPlaywright: snapshot 2 catches it in
\* ingestCore, snapshot 3 and the ingest_b64 route of snapshot 1 in the route
\* handler; the other routes of snapshot 1 have no handler for it, and the
\* promise of the route handler is rejected with no response written
HandlerCatch(w, c) ==
  LET w1 == [w EXCEPT !.calls[c].threw = TRUE] IN
  IF snap = 2 THEN Finish(w1, c, "504_playwright_failed")
  ELSE IF snap = 3 THEN Finish(w1, c, "500_error")
  ELSE IF w.calls[c].route = "ingest_b64" THEN Finish(w1, c, "500_error")
  ELSE Finish(w1, c, "unhandled_rejection")

ExtractThrow(w, c) == HandlerCatch(LeaveExtract(w, c, TRUE), c)

\* mutant of IngestCoreEnter: the allow-list check is missing
IngestCoreEnterNoAllowList(w, c) ==
  IF DRY_RUN THEN Finish(w, c, "200_dryrun")
  ELSE IF w.calls[c].url = EmptyUrl THEN Finish(w, c, "400_url_required")
  ELSE IF ~FORCE_PLAYWRIGHT
  THEN [w EXCEPT !.calls[c].pc = "fetch", !.calls[c].gets = @ + 1]
  ELSE EnterExtract(w, c)

\* mutant of IngestCoreEnter: FORCE_PLAYWRIGHT is not tested
IngestCoreEnterAlwaysFetch(w, c) ==
  IF DRY_RUN THEN Finish(w, c, "200_dryrun")
  ELSE IF w.calls[c].url = EmptyUrl THEN Finish(w, c, "400_url_required")
  ELSE IF ~isChatGPTShare(w.calls[c].url) THEN Finish(w, c, "400_not_share")
  ELSE [w EXCEPT !.calls[c].pc = "fetch", !.calls[c].gets = @ + 1]

\* ingestCore(targetUrl, debugFlag) up to its first await
IngestCoreEnter(w, c) ==
  IF DRY_RUN THEN Finish(w, c, "200_dryrun")
  ELSE IF w.calls[c].url = EmptyUrl THEN Finish(w, c, "400_url_required")
  ELSE IF ~isChatGPTShare(w.calls[c].url) THEN Finish(w, c, "400_not_share")
  ELSE IF ~FORCE_PLAYWRIGHT
  THEN [w EXCEPT !.calls[c].pc = "fetch", !.calls[c].gets = @ + 1]
  ELSE EnterExtract(w, c)

\* snapshot 2: the end of warmup(); a coalesced warm-up resets WARMING and
\* resumes every handler that awaits it
WarmupEnd(w, c) ==
  IF c = Boot THEN [w EXCEPT !.calls[c].pc = "done"]
  ELSE [w EXCEPT !.WARMING = FALSE,
                 !.calls = [p \in DOMAIN @ |->
                              IF p = c \/ @[p].pc = "warmWait"
                              THEN [@[p] EXCEPT !.pc = "core"] ELSE @[p]]]

\* snapshot 2: if (!READY && FORCE_PLAYWRIGHT) await ensureWarm()
EnsureWarm(w, c) ==
  IF w.WARMING THEN [w EXCEPT !.calls[c].pc = "warmWait"]
  ELSE GetBrowser([w EXCEPT !.WARMING = TRUE], c, "warmContext", "warmLaunching")

\* what the rendered page yields, by snapshot: snapshot 1 reads the embedded
\* payload (r.s: the wait for its script resolved and it has turns), then
\* the role-marked elements; snapshot 2 reads the elements;
\* snapshot 3 reads them and then scrapes them again inside the page (late:
\* the elements appeared between the two readings)
RenderParse(r, late) ==
  IF snap = 1 /\ r.s THEN "render_structured"
  ELSE IF r.d THEN "render_dom"
  ELSE IF snap = 3 /\ late THEN "render_scrape"
  ELSE "none"

\* ------------------------------------------------------------------ actions
\* the state after the module is loaded, for the given settings
InitWith(dryRuns, forces) ==
  /\ snap \in {1, 2, 3}
  /\ DRY_RUN \in (IF snap = 3 THEN {FALSE} ELSE dryRuns)
  /\ FORCE_PLAYWRIGHT \in forces
  /\ MAX_CONCURRENCY \in (IF snap = 3 THEN {1} ELSE 1..NumCalls)
  /\ PW_BROWSER = 0
  /\ INFLIGHT = 0
  /\ READY = FALSE
  /\ WARMING = FALSE
  /\ running = 0
  /\ contexts = 0
  /\ calls = [p \in Procs |-> IdleCall]
  /\ html = EmptyHtml
  /\ ppc = "idle"
  /\ probed = FALSE
  /\ out = <<>>
  /\ parsed = NoParsed
  /\ body = NoBody
  /\ ready = NoReady
  /\ proc = "up"
  /\ handlers = {}

\* a request arrives on an ingest route
RequestIngest(c, routes, urls, debugs) ==
  /\ calls[c].pc = "idle"
  /\ \E route \in RoutesOf(snap) \cap routes, url \in urls, debug \in debugs :
       LET w == [World EXCEPT !.calls[c].route = route, !.calls[c].url = url,
                              !.calls[c].debug = debug]
       IN IF route = "ingest_b64" /\ url = EmptyUrl
          THEN Apply(Finish(w, c, "400_src_b64_required"))
          ELSE IF snap = 2 /\ ~READY /\ FORCE_PLAYWRIGHT
          THEN Apply(EnsureWarm(w, c))
          ELSE Apply(IngestCoreEnter(w, c))

\* snapshot 2: the handler continues after its warm-up
Core(c) ==
  /\ calls[c].pc = "core"
  /\ Apply(IngestCoreEnter(World, c))

\* the static fetch settles
FetchDone(c, outcomes) ==
  /\ calls[c].pc = "fetch"
  /\ \E st \in outcomes, page \in Pages :
       /\ ~ResponseOk(st) => page = NoPage
       /\ LET w == [World EXCEPT !.calls[c].fetch = st, !.calls[c].page = page]
              p == IF ResponseOk(st) THEN StaticParse(page) ELSE "none"
          IN IF p # "none" THEN Apply(AfterExtract(w, c, p))
             ELSE IF snap = 3 /\ st # NetworkError /\ ~ResponseOk(st)
                     /\ st \notin {403, 401, 503}
             THEN Apply(Finish(w, c, "422_fetch_status"))
             ELSE Apply(EnterExtract(w, c))

\* the 50 ms timer of the admission gate fires
Wake(c) ==
  /\ calls[c].pc = "sleep"
  /\ Apply(EnterExtract(World, c))

\* chromium.launch() settles for an extraction or a renderPdf call
LaunchDone(c) ==
  /\ calls[c].pc = "launching"
  /\ \E ok \in BOOLEAN :
       LET pdf == calls[c].route = "pdf"
           w == [World EXCEPT !.running = @ + 1]
       IN IF ok /\ snap = 3
          THEN Apply([w EXCEPT !.calls[c].pc = IF pdf THEN "print" ELSE "render"])
          ELSE IF ok
          THEN Apply([w EXCEPT !.PW_BROWSER = w.running, !.calls[c].pc = "newContext",
                               !.handlers = IF snap = 1 THEN Signals ELSE @])
          ELSE LET f == [World EXCEPT !.calls[c].startFailed = TRUE] IN
               IF pdf THEN Apply(Finish([f EXCEPT !.calls[c].threw = TRUE], c, "500_error"))
               ELSE IF snap = 3 THEN Apply(HandlerCatch(f, c))
               ELSE Apply(ExtractThrow(f, c))

\* browser.newContext() settles
NewContextDone(c) ==
  /\ calls[c].pc = "newContext"
  /\ \E ok \in BOOLEAN :
       LET pdf == calls[c].route = "pdf" IN
       IF ok
       THEN Apply([World EXCEPT !.contexts = @ + 1,
                                !.calls[c].pc = IF pdf THEN "print" ELSE "render"])
       ELSE IF pdf THEN Apply(Finish([World EXCEPT !.calls[c].threw = TRUE], c, "500_error"))
       ELSE Apply(ExtractThrow(World, c))

\* navigation, readiness waits and the page snapshot settle: either one of
\* them threw (ok = FALSE) or the snapshot r was taken, the context (snapshots
\* 1 and 2) closed and the snapshot parsed
RenderDone(c, pages) ==
  /\ calls[c].pc = "render"
  /\ \E ok \in BOOLEAN, r \in pages, late \in BOOLEAN :
       IF ~ok THEN Apply(ExtractThrow(World, c))
       ELSE Apply(ExtractReturn([World EXCEPT !.contexts = IF snap = 3 THEN @ ELSE @ - 1],
                                c, RenderParse(r, late)))

\* snapshot 1: the second fetch of the failure diagnostics settles
Fetch2Done(c) ==
  /\ calls[c].pc = "fetch2"
  /\ \E ok \in BOOLEAN, page \in Pages :
       IF ok
       THEN Apply(Finish([World EXCEPT !.calls[c].detail =
                                          [kind |-> "page", page |-> page]],
                         c, "422_parse_failed_debug"))
       ELSE Apply(Finish([World EXCEPT !.calls[c].detail =
                                          [kind |-> "error", page |-> NoPage]],
                         c, "422_parse_failed_note"))

\* POST /api/pdf arrives
RequestPdf(c, inputs) ==
  /\ calls[c].pc = "idle"
  /\ "pdf" \in RoutesOf(snap)
  /\ \E b \in inputs :
       LET w == [World EXCEPT !.calls[c].route = "pdf", !.calls[c].pdf.body = b]
           built == [w EXCEPT !.calls[c].pdf.markup = BuildMarkup(b)]
       IN
       IF ~PdfValid(b) THEN Apply(Finish(w, c, "400_pdf_input"))
       ELSE IF snap = 3
       THEN Apply([built EXCEPT !.calls[c].pc = "launching"])
       ELSE Apply(GetBrowser(built, c, "newContext", "launching"))

\* newPage / setContent / page.pdf settle
PrintDone(c) ==
  /\ calls[c].pc = "print"
  /\ \E ok \in BOOLEAN :
       LET named == [World EXCEPT !.calls[c].pdf.filename =
                                     slug(calls[c].pdf.body.title) \o <<".pdf">>]
       IN
       IF ~ok THEN Apply(Finish([World EXCEPT !.calls[c].threw = TRUE], c, "500_error"))
       ELSE IF snap = 3
       THEN Apply(Finish([named EXCEPT !.running = @ - 1], c, "200_pdf"))
       ELSE Apply(Finish([named EXCEPT !.contexts = @ - 1], c, "200_pdf"))

\* snapshot 2: warmup() is called when the module is loaded
BootWarmup ==
  /\ snap = 2
  /\ calls[Boot].pc = "idle"
  /\ Apply(GetBrowser(World, Boot, "warmContext", "warmLaunching"))

\* snapshot 2: the launch of a warm-up settles
WarmLaunchDone(p) ==
  /\ calls[p].pc = "warmLaunching"
  /\ \E ok \in BOOLEAN :
       IF ok
       THEN Apply([World EXCEPT !.PW_BROWSER = running + 1,
                                !.running = @ + 1,
                                !.calls[p].pc = "warmContext"])
       ELSE Apply(WarmupEnd([World EXCEPT !.calls[p].startFailed = TRUE], p))

\* snapshot 2: newContext of a warm-up settles
WarmContextDone(p) ==
  /\ calls[p].pc = "warmContext"
  /\ \E ok \in BOOLEAN :
       IF ok
       THEN Apply([World EXCEPT !.contexts = @ + 1, !.calls[p].pc = "warmPage"])
       ELSE Apply(WarmupEnd(World, p))

\* snapshot 2: newPage / setContent / ctx.close of a warm-up settle
WarmPageDone(p) ==
  /\ calls[p].pc = "warmPage"
  /\ \E ok \in BOOLEAN :
       IF ok
       THEN Apply(WarmupEnd([World EXCEPT !.contexts = @ - 1, !.READY = TRUE], p))
       ELSE Apply(WarmupEnd(World, p))

\* a termination signal is delivered. With a process.once listener: the
\* listener is removed and starts closing the browser. Without one the default
\* action of the signal ends the process, unless a listener that is not in this
\* source absorbs it (then nothing happens here)
Signal(sig) ==
  /\ Alive
  /\ IF sig \in handlers
     THEN /\ handlers' = handlers \ {sig}
          /\ proc' = "closing"
     ELSE /\ handlers' = handlers
          /\ proc' = "killed"
  /\ UNCHANGED <<config, extraction, PW_BROWSER, INFLIGHT, READY, WARMING,
                 running, contexts, calls>>

\* try { await PW_BROWSER?.close(); } catch {}  process.exit(0);
CloseDone ==
  /\ proc = "closing"
  /\ \E ok \in BOOLEAN :
       /\ running' = IF ok THEN running - 1 ELSE running
       /\ contexts' = IF ok THEN 0 ELSE contexts
  /\ proc' = "exited"
  /\ UNCHANGED <<config, extraction, PW_BROWSER, INFLIGHT, READY, WARMING,
                 calls, handlers>>

\* the server keeps serving: the handler of a later request runs after the
\* response of an earlier one was sent (the caller slot c is used again);
\* not after more contexts were left open than the model counts
NextRequest(c) ==
  /\ calls[c].pc = "done"
  /\ contexts <= NumCalls
  /\ Apply([World EXCEPT !.calls[c] = IdleCall])

\* the steps of the browser and of the warm-up
BrowserSteps(pages) ==
  \/ BootWarmup
  \/ \E p \in Procs :
       \/ WarmLaunchDone(p)
       \/ WarmContextDone(p)
       \/ WarmPageDone(p)
  \/ \E c \in Calls :
       \/ Core(c)
       \/ LaunchDone(c)
       \/ NewContextDone(c)
       \/ RenderDone(c, pages)
       \/ PrintDone(c)

\* concurrent load: NumCalls requests that all need the browser (rendering
\* forced, share links, valid renderPdf input), in any interleaving
Init == InitWith({FALSE}, {TRUE})

Next ==
  \/ BrowserSteps({NoPage, [s |-> FALSE, d |-> TRUE]})
  \/ \E c \in Calls :
       \/ RequestIngest(c, {"ingest"}, {ShareUrl}, {FALSE})
       \/ Wake(c)
       \/ RequestPdf(c, {SamplePdfBody})

Spec == Init /\ [][Next]_vars

\* single load: one request, with every setting, input and outcome
InitPipe == InitWith(BOOLEAN, BOOLEAN)

NextPipe ==
  \/ BrowserSteps(Pages)
  \/ RequestIngest(1, IngestRoutes, Urls, BOOLEAN)
  \/ FetchDone(1, FetchOutcomes)
  \/ Fetch2Done(1)
  \/ RequestPdf(1, {SamplePdfBody, NoPdfBody})

SpecPipe == InitPipe /\ [][NextPipe]_vars

\* one call that needs the browser, and termination signals at any time
InitDown == InitWith({FALSE}, {TRUE})

NextDown ==
  \/ BrowserSteps({NoPage})
  \/ RequestIngest(1, {"ingest"}, {ShareUrl}, {FALSE})
  \/ RequestPdf(1, {SamplePdfBody})
  \/ \E sig \in Signals : Signal(sig)
  \/ CloseDone

SpecDown == InitDown /\ [][NextDown]_vars

\* sustained load on the admission gate: requests that need the browser
\* keep arriving, one after the other on each caller slot
InitGate == InitWith({FALSE}, {TRUE}) /\ snap \in {1, 2}

NextGate ==
  \/ BrowserSteps({NoPage})
  \/ \E c \in Calls :
       \/ RequestIngest(c, {"ingest"}, {ShareUrl}, {FALSE})
       \/ RequestPdf(c, {SamplePdfBody})
       \/ Wake(c)
       \/ NextRequest(c)

SpecGate == InitGate /\ [][NextGate]_vars

\* the 50 ms timer of every waiting call fires and the call tests the gate
\* again, and the operations of the browser settle; the arrival of requests
\* is not constrained
FairGate ==
  SpecGate /\ WF_vars(BrowserSteps({NoPage})) /\ \A c \in Calls : WF_vars(Wake(c))

\* one ingest call with every URL, up to its first await
InitUrl == InitWith({FALSE}, {FALSE})

NextUrl == RequestIngest(1, IngestRoutes, AllUrls, BOOLEAN)

SpecUrl == InitUrl /\ [][NextUrl]_vars

\* one renderPdf call, with every body and every outcome of the browser
InitPdf == InitWith({FALSE}, {FALSE})

NextPdf ==
  \/ RequestPdf(1, PdfBodies)
  \/ LaunchDone(1)
  \/ NewContextDone(1)
  \/ PrintDone(1)

SpecPdf == InitPdf /\ [][NextPdf]_vars

\* what the service is certain to do once it can: its own continuations, the
\* local browser operations, and navigation and readiness waits, which end
\* with an error after their timeout (page.goto timeout, waitForSelector
\* timeout). fetch() is called with headers only, no timeout and no abort
\* signal, so nothing makes a fetch settle when the peer stays silent
FairPipe == SpecPipe /\ WF_vars(BrowserSteps(Pages))

\* ------------------------------------------------------------------ extraction
\* mutant of AfterPayloadWait: a wait that does not resolve ends the stage
AfterPayloadWaitFatal(o) == IF o = "resolved" THEN "render_json" ELSE "respond"

\* snapshot 1: after the wait for the payload script: the payload is read, or
\* the catch block is left for the wait for the elements
AfterPayloadWait(o) == IF o = "resolved" THEN "render_json" ELSE "wait_dom"

\* the static fetch answered with the page h
Fetched(pages) ==
  /\ ppc = "idle"
  /\ ~DRY_RUN /\ ~FORCE_PLAYWRIGHT
  /\ \E h \in pages :
       /\ html' = h
       /\ ppc' = "static_json"
  /\ UNCHANGED <<config, service, probed, out, parsed, body, ready>>

\* extractFromEmbeddedJSON(html), or the payload read from the rendered page
ExtractFromEmbeddedJSON ==
  /\ ppc \in {"static_json", "render_json"}
  /\ LET turns == extractTurnsFromPossibleJSON(html.json)
         static == ppc = "static_json"
     IN /\ out' = turns
        /\ probed' = TRUE
        /\ IF Len(turns) > 0
           THEN /\ parsed' = [via |-> IF static THEN "static_structured"
                                      ELSE "render_structured",
                              turns |-> turns]
                /\ ppc' = "respond"
           ELSE /\ parsed' = parsed
                /\ ppc' = IF static THEN "static_dom" ELSE "wait_dom"
  /\ UNCHANGED <<config, service, html, body, ready>>

\* extractFromDomHTML(html), on the fetched page or on the rendered page
ExtractFromDomHTML ==
  /\ ppc \in {"static_dom", "render_dom"}
  /\ LET turns == extractFromDomHTML(html.dom)
         static == ppc = "static_dom"
     IN IF Len(turns) > 0
        THEN /\ parsed' = [via |-> IF static THEN "static_dom" ELSE "render_dom",
                           turns |-> turns]
             /\ ppc' = "respond"
             /\ html' = html
        ELSE /\ parsed' = parsed
             /\ ppc' = IF static THEN "goto"
                       ELSE IF snap = 3 THEN "scrape" ELSE "respond"
             \* the fetched page is not used again
             /\ html' = IF static THEN EmptyHtml ELSE html
  /\ UNCHANGED <<config, service, probed, out, body, ready>>

\* extractWithPlaywright: the navigation settles and the rendered page is read
Goto(pages) ==
  /\ ppc = "goto"
  /\ \E r \in pages :
       /\ html' = r
       /\ probed' = FALSE
       /\ out' = <<>>
       /\ ppc' = IF snap = 1 THEN "wait_json" ELSE "render_dom"
  /\ ready' = [ready EXCEPT !.nav = TRUE]
  /\ UNCHANGED <<config, service, parsed, body>>

\* snapshot 1: try { await page.waitForSelector('script#__NEXT_DATA__') ... }
\* catch {}: the payload is read only when the wait resolves
WaitForPayload ==
  /\ ppc = "wait_json"
  /\ \E o \in WaitOutcomes :
       /\ ready' = [ready EXCEPT !.s = o]
       /\ ppc' = AfterPayloadWait(o)
  /\ UNCHANGED <<config, service, html, probed, out, parsed, body>>

\* snapshot 1: try { await page.waitForSelector("[data-message-author-role]") }
\* catch {}; then page.content() is read whatever the wait did. The wait
\* resolves only when the page has such an element
WaitForElements ==
  /\ ppc = "wait_dom"
  /\ \E o \in WaitOutcomes :
       /\ o = "resolved" => html.dom # <<>>
       /\ ready' = [ready EXCEPT !.d = o]
  /\ ppc' = "render_dom"
  /\ UNCHANGED <<config, service, html, probed, out, parsed, body>>

\* snapshot 3: page.evaluate scrapes the live document
Scrape ==
  /\ ppc = "scrape"
  /\ \E live \in Doms :
       LET turns == ScrapeTurns(live) IN
       /\ html' = [html EXCEPT !.dom = live]
       /\ parsed' = IF Len(turns) > 0 THEN [via |-> "render_scrape", turns |-> turns]
                    ELSE parsed
  /\ ppc' = "respond"
  /\ UNCHANGED <<config, service, probed, out, body, ready>>

\* ingestCore after the stages: parse_failed, or the conversation
Respond ==
  /\ ppc = "respond"
  /\ body' = IF Len(parsed.turns) = 0
             THEN [status |-> 422, turns |-> <<>>]
             ELSE [status |-> 200, turns |-> WithOrd(parsed.turns)]
  /\ ppc' = "done"
  /\ UNCHANGED <<config, service, html, probed, out, parsed, ready>>

\* one call with a successful fetch, for every page the fetch and the
\* rendering can return
InitParse ==
  /\ InitWith({FALSE}, {FALSE})
  /\ MAX_CONCURRENCY = 1

NextParse ==
  \/ ExtractFromEmbeddedJSON
  \/ ExtractFromDomHTML
  \/ Goto(Htmls)
  \/ WaitForPayload
  \/ WaitForElements
  \/ Scrape
  \/ Respond
  \/ Fetched(Htmls)

SpecParse == InitParse /\ [][NextParse]_vars

\* ------------------------------------------------------------------ claims
Gated == snap \in {1, 2}

\* the extraction calls between INFLIGHT++ and the finally block
Holders == {c \in Calls : calls[c].route \in IngestRoutes
                          /\ calls[c].pc \in {"launching", "newContext", "render"}}

\* the calls that have a browser context open
ContextUsers == {c \in Calls : calls[c].pc \in {"render", "print"}}

\* C1: under every interleaving the number of extraction calls between the
\* increment of INFLIGHT and the finally block is at most MAX_CONCURRENCY; with
\* a limit of 1 no call is admitted while another one holds its session
C1_AdmissionGate ==
  Gated => /\ Cardinality(Holders) <= MAX_CONCURRENCY
           /\ MAX_CONCURRENCY = 1 =>
                \A c, d \in Holders : c = d

\* a call waits at the gate while another one holds the only session
C1_Witness ==
  /\ Gated /\ MAX_CONCURRENCY = 1
  /\ \E c, d \in Calls : c \in Holders /\ calls[d].pc = "sleep"

\* C2 (as claimed): every browser context opened by an extraction or renderPdf
\* call is closed when that call ends, on every path: the open contexts are
\* exactly those of the calls that are still rendering or printing
C2_ContextsClosed ==
  snap = 1 => contexts = Cardinality(ContextUsers)

\* C3: every increment of INFLIGHT is matched by exactly one decrement when the
\* call ends (return or throw): the counter equals the number of calls inside
\* the rendering stage, so it is never negative and is 0 when there is none
C3_CounterMatched ==
  Gated => /\ INFLIGHT = Cardinality(Holders)
           /\ INFLIGHT >= 0
           /\ (Holders = {} => INFLIGHT = 0)

\* one call has thrown, another has returned, and the counter is back at 0
C3_Witness ==
  /\ Gated /\ INFLIGHT = 0
  /\ \E c, d \in Calls :
       /\ calls[c].pc = "done" /\ calls[c].entered /\ calls[c].threw
       /\ calls[d].pc = "done" /\ calls[d].entered /\ ~calls[d].threw

\* C4 (as claimed): with a shared browser, at most one browser process is ever
\* started, whatever the interleaving of the callers of getBrowser
C4_SingleBrowser ==
  Gated => running <= 1 /\ PW_BROWSER <= 1

\* C5: the rendered stage is entered only after the static stages failed (or
\* were skipped), and a fetched page that yields turns is the result,
\* structured before DOM, without a session or a browser start by that call
C5_StaticFirst ==
  \A c \in Calls :
    LET k == calls[c]
        hasTurns == ResponseOk(k.fetch) /\ (k.page.s \/ k.page.d)
    IN /\ k.pc \in {"sleep", "launching", "newContext", "render"}
            /\ k.route \in IngestRoutes => k.entered
       /\ k.entered => ~hasTurns
       /\ k.entered /\ k.gets = 0 => FORCE_PLAYWRIGHT
       /\ k.pc = "done" /\ hasTurns =>
            /\ k.resp = "200_conversation"
            /\ k.parsed = (IF k.page.s THEN "static_structured" ELSE "static_dom")

\* a fetched page with a payload and role-marked elements gave the payload's turns
C5_Witness ==
  \E c \in Calls :
    /\ calls[c].pc = "done" /\ calls[c].fetch = 200
    /\ calls[c].page.s /\ calls[c].page.d
    /\ calls[c].parsed = "static_structured" /\ ~calls[c].entered

\* C6 (as claimed): after a failed static fetch (non-success status or network
\* error) the call has gone on to the rendered stage
C6_FetchFailureRecovered ==
  \A c \in Calls :
    calls[c].fetch # -1 /\ ~ResponseOk(calls[c].fetch) => calls[c].entered

\* C7 (as claimed): a call whose rendered stage threw ends with a structured
\* render error delivered to its caller
C7_RenderErrorDelivered ==
  \A c \in Calls :
    calls[c].pc = "done" /\ calls[c].route \in IngestRoutes /\ calls[c].threw
      => calls[c].resp \in {"500_error", "504_playwright_failed"}

InvalidUrlResponses == {"400_url_required", "400_not_share", "400_src_b64_required"}

NotAllowListed(c) ==
  /\ calls[c].route \in IngestRoutes
  /\ calls[c].url.host \notin {"chatgpt.com", "chat.openai.com"}

\* C8 (as claimed): for a URL that is not an allow-listed share link the call
\* ends with InvalidUrl, without a GET, a session or a browser start
C8_InvalidUrlAlways ==
  \A c \in Calls :
    NotAllowListed(c) /\ calls[c].pc = "done" =>
      /\ calls[c].resp \in InvalidUrlResponses
      /\ calls[c].gets = 0 /\ ~calls[c].entered

\* C8 (amended): for a URL that is not an allow-listed share link extract sends
\* no GET, acquires no session and starts no browser; it ends with InvalidUrl
\* unless DRY_RUN is set, and with the dry-run result if it is
C8_InvalidUrlUnlessDryRun ==
  \A c \in Calls :
    NotAllowListed(c) =>
      /\ calls[c].gets = 0 /\ ~calls[c].entered
      /\ calls[c].pc \notin {"fetch", "sleep", "launching", "newContext", "render", "fetch2"}
      /\ calls[c].pc = "done" =>
           calls[c].resp \in InvalidUrlResponses \cup {"200_dryrun"}
      /\ calls[c].pc = "done" /\ ~DRY_RUN => calls[c].resp \in InvalidUrlResponses
      /\ calls[c].pc = "done" /\ calls[c].resp = "200_dryrun" => DRY_RUN

\* a URL on another host was rejected while DRY_RUN is off
C8_Witness ==
  \E c \in Calls :
    /\ ~DRY_RUN /\ calls[c].pc = "done" /\ calls[c].url = OtherUrl
    /\ calls[c].resp = "400_not_share" /\ calls[c].gets = 0

WhitespaceOnly(s) == \A i \in DOMAIN s : s[i] \in {" ", "\n", NBSP}

\* C9 (as claimed): every conversation that is returned has at least one turn,
\* its i-th turn (from 0) has ord = i, and no turn has an empty or
\* whitespace-only content
C9_TurnsWellFormed ==
  body.status = 200 =>
    /\ Len(body.turns) >= 1
    /\ \A i \in DOMAIN body.turns :
         /\ body.turns[i].ord = i - 1
         /\ ~WhitespaceOnly(body.turns[i].content)

\* the order of the probes, as claimed
ClaimedOrder == << "props.pageProps.serverResponse.messages",
                   "props.pageProps.sharedConversation.mapping",
                   "state.conversation.messages",
                   "messages",
                   "turns" >>

\* the turns that one probe yields on its own
ProbeTurns(node) ==
  IF node.k = "array" THEN PushAll(<<>>, node.list)
  ELSE IF node.k = "object"
  THEN PushAll(<<>>, [n \in DOMAIN node.values |-> Unwrap(node.values[n])])
  ELSE <<>>

Winners(json) ==
  {i \in DOMAIN ClaimedOrder : ProbeTurns(json[ClaimedOrder[i]]) # <<>>}

C11_NoCallWaitsForever ==
  (calls[1].pc # "idle") ~> (calls[1].pc = "done")

\* C12 (as claimed): within one call, whatever the options and the outcome, at
\* most one GET is sent to the target URL
C12_OneGetPerCall ==
  \A c \in Calls : calls[c].gets <= 1

\* the call ran every strategy it had and none produced a turn
AllStrategiesFailed(c) ==
  /\ calls[c].pc = "done" /\ calls[c].route \in IngestRoutes
  /\ calls[c].entered /\ ~calls[c].threw /\ calls[c].parsed = "none"

\* C13: when all strategies produce no turn the caller receives ParseFailed,
\* and without the debug flag the error is one fixed value that carries
\* nothing of the fetched page, whatever that page was
C13_NoDetailWithoutDebug ==
  \A c \in Calls :
    AllStrategiesFailed(c) =>
      /\ calls[c].resp \in {"422_parse_failed", "422_parse_failed_debug",
                            "422_parse_failed_note"}
      /\ ~calls[c].debug =>
           calls[c].resp = "422_parse_failed" /\ calls[c].detail = NoDetail

\* a page was fetched, nothing was found in it or in the rendered page, the
\* debug flag was not set and the plain error was returned
C13_Witness ==
  \E c \in Calls :
    /\ AllStrategiesFailed(c) /\ ~calls[c].debug /\ calls[c].fetch = 200
    /\ calls[c].resp = "422_parse_failed" /\ calls[c].detail = NoDetail

\* C14 (as claimed): once the shared browser is ready (snapshot 1 installs the
\* handlers), termination signals, repeated or different, only ever lead to
\* the orderly shutdown: closing, then exited with the browser process closed;
\* no delivery ends the process in another way
C14_ShutdownIdempotent ==
  snap = 1 /\ PW_BROWSER # 0 => proc \in {"up", "closing", "exited"}

\* C15 (as claimed): a call for which the start of the browser failed makes
\* no further use of the browser (no second start, no session) and ends with
\* an error delivered to its caller, not with ParseFailed or a conversation
C15_StartFailureFatal ==
  \A c \in Calls :
    calls[c].startFailed =>
      /\ calls[c].pc \notin {"sleep", "launching", "newContext", "render", "print"}
      /\ calls[c].pc = "done" =>
           calls[c].resp \in {"500_error", "504_playwright_failed"}

\* C16 (as claimed): the calls that have a browser context open at the same
\* time, extraction and renderPdf calls together, are never more than the
\* configured limit
C16_LimitBoundsEveryUser ==
  Gated => Cardinality(ContextUsers) <= MAX_CONCURRENCY

\* a sequence occurs in another as a contiguous run
Occurs(sub, s) ==
  \E i \in 0..(Len(s) - Len(sub)) : \A k \in 1..Len(sub) : s[i + k] = sub[k]

TurnSections(markup) == {i \in DOMAIN markup : markup[i] = "<div class=turn>"}

TitleMissing(b) == b.title = Undefined \/ b.title = Str(<<>>)

\* C17: a renderPdf call whose title is missing or empty, or whose turns are
\* not a list, is answered with the input error and nothing of the browser
\* is started or opened for it; a call with a non-empty title and an empty
\* list of turns is never answered with the input error, and the markup it
\* hands to the browser holds the escaped title and the export time and no
\* turn section
C17_PdfInputValidated ==
  \A c \in Calls :
    calls[c].route = "pdf" =>
      LET b == calls[c].pdf.body IN
      /\ TitleMissing(b) \/ b.turns.k # "array" =>
            /\ calls[c].pc = "done" /\ calls[c].resp = "400_pdf_input"
            /\ PW_BROWSER = 0 /\ running = 0 /\ contexts = 0
      /\ ~TitleMissing(b) /\ b.turns = Parts(<<>>) =>
            /\ calls[c].resp # "400_pdf_input"
            /\ Occurs(<<"<h1>">> \o escapeHtml(b.title.v) \o <<"</h1>">>, calls[c].pdf.markup)
            /\ Occurs(<<"Exported", "nowIso">>, calls[c].pdf.markup)
            /\ TurnSections(calls[c].pdf.markup) = {}

\* an empty list of turns with a title that needs escaping was printed
C17_Witness ==
  /\ calls[1].route = "pdf" /\ calls[1].resp = "200_pdf"
  /\ calls[1].pdf.body = PdfBody(Str(<<"A", "<">>), Parts(<<>>))
  /\ calls[1].pdf.markup # <<>>

\* C18: in the markup a renderPdf call builds, none of the characters
\* < > & " ' of the title, of a role or of a content is left as it is, inside
\* or outside a code fence: each one is there in its escaped form only
C18_NoRawUserText ==
  \A c \in Calls :
    calls[c].route = "pdf" =>
      \A i \in DOMAIN calls[c].pdf.markup : calls[c].pdf.markup[i] \notin HtmlSpecials

\* the stem the filename is said to have: the slug of the title, and
\* "conversation" when that slug is empty
ClaimedStem(title) ==
  LET r == StripHyphens(Hyphenate(toLowerCase(title.v)))
  IN IF r = <<>> THEN Conversation ELSE r

\* C19: the attachment of a printed document is named by the lower-cased
\* title with each run of non-alphanumeric characters made one hyphen and
\* the hyphens at both ends removed, by "conversation" when nothing is left,
\* and so never by an empty stem
C19_StemNeverEmpty ==
  \A c \in Calls :
    calls[c].route = "pdf" /\ calls[c].resp = "200_pdf" =>
      /\ calls[c].pdf.filename = ClaimedStem(calls[c].pdf.body.title) \o <<".pdf">>
      /\ calls[c].pdf.filename # <<".pdf">>

AllowedHosts == {"chatgpt.com", "chat.openai.com"}

\* the allow-list check let the URL of the call through
Accepted(c) == calls[c].pc # "idle" /\ calls[c].resp # "400_not_share"

\* C20 (as claimed): a URL passes the allow-list check if and only if its
\* host is chatgpt.com or chat.openai.com, whatever its port and its path
C20_HostDecides ==
  \A c \in Calls :
    calls[c].route \in IngestRoutes /\ calls[c].url # EmptyUrl =>
      (Accepted(c) <=> calls[c].url.host \in AllowedHosts)

\* C20 (amended): a URL passes the allow-list check if and only if it is an
\* http or https URL on chatgpt.com or chat.openai.com with no port and a
\* path that begins with /share/; so every URL on another host is rejected
C20_ShareLinkDecides ==
  \A c \in Calls :
    calls[c].route \in IngestRoutes /\ calls[c].url # EmptyUrl =>
      /\ Accepted(c) <=>
            /\ calls[c].url.host \in AllowedHosts
            /\ calls[c].url.scheme \in {"http", "https"}
            /\ calls[c].url.port = "" /\ calls[c].url.path = "/share/"
      /\ calls[c].url.host \notin AllowedHosts =>
            calls[c].resp = "400_not_share" /\ calls[c].gets = 0

\* a share link on an allow-listed host was rejected because it names a port
C20_Witness ==
  /\ calls[1].url = [scheme |-> "https", host |-> "chat.openai.com", port |-> "443",
                     path |-> "/share/"]
  /\ calls[1].pc = "done" /\ calls[1].resp = "400_not_share"

\* the rendered stage of a finished call got no readiness condition resolved
NeitherResolved == ready.nav /\ ready.s # "resolved" /\ ready.d # "resolved"

\* C21 (as claimed): when the navigation completes and neither readiness
\* condition resolves, the final snapshot goes through the structured
\* extractor too: a snapshot whose embedded payload has turns yields the
\* conversation of these turns when it has no turn from role-marked elements
C21_LastResortBothExtractors ==
  ppc = "done" /\ NeitherResolved
    /\ Len(extractTurnsFromPossibleJSON(html.json)) > 0
    /\ Len(extractFromDomHTML(html.dom)) = 0 /\ parsed.via # "render_scrape"
    => body = [status |-> 200, turns |-> WithOrd(extractTurnsFromPossibleJSON(html.json))]

\* C22: snapshot 1: a readiness wait that times out or throws does not end
\* the rendered stage. When the payload wait does not resolve, the wait for
\* the elements is still made and the page is still read; when only the
\* payload wait resolves and the payload has turns, they are the
\* conversation; when only the wait for the elements resolves and the
\* elements give turns, they are the conversation
C22_WaitTimeoutNotFatal ==
  snap = 1 /\ ready.nav /\ ppc = "done" =>
    LET json == extractTurnsFromPossibleJSON(html.json)
        dom == extractFromDomHTML(html.dom)
    IN /\ ready.s # "resolved" => ready.d # NotWaited
       /\ body.status \in {200, 422}
       /\ ready.s = "resolved" /\ ready.d # "resolved" /\ Len(json) > 0 =>
             body = [status |-> 200, turns |-> WithOrd(json)]
       /\ ready.s # "resolved" /\ ready.d = "resolved" /\ Len(dom) > 0 =>
             body = [status |-> 200, turns |-> WithOrd(dom)]

\* the payload wait timed out, the wait for the elements resolved and the
\* conversation of the elements was returned
C22_Witness ==
  /\ snap = 1 /\ ppc = "done" /\ ready.s = "timeout" /\ ready.d = "resolved"
  /\ body.status = 200 /\ parsed.via = "render_dom"

\* an element whose children are a text and then a pre block, as in
\* <div data-message-author-role="assistant">Hello<pre>code()</pre></div>,
\* with the text "a" for Hello and the code "c" for code()
TextThenPre == El("assistant", <<TextKid(<<"a">>), PreKid(<<"c">>)>>)

\* C23 (as claimed): in a conversation read from role-marked elements, the
\* turn of an element with a text followed by a pre block has the content:
\* the text, newline, fence, newline, the code, newline, fence
C23_PreBecomesFence ==
  parsed.via \in {"static_dom", "render_dom"} /\ (\E i \in DOMAIN html.dom : html.dom[i] = TextThenPre)
    => \E k \in DOMAIN parsed.turns :
         parsed.turns[k] = [role |-> "assistant",
                            content |-> <<"a", "\n">> \o Fence \o <<"\n", "c", "\n">> \o Fence]

\* the turn a message of a list payload stands for: its resolved role and
\* its resolved text without the surrounding whitespace
PayloadTurn(m) ==
  [role |-> ResolveRole(m),
   content |-> IF Nullish(ResolveText(m)) THEN <<>> ELSE trim(ToStr(ResolveText(m)))]

\* the turn a role-marked element stands for; an empty marker is assistant
ElementTurn(el) ==
  [role |-> IF el.role = "" THEN "assistant" ELSE el.role,
   content |-> clean(ElText(el.kids))]

\* turns are the candidates with a role and a text, each one once, in the
\* order of the candidates
InSourceOrder(turns, cands) ==
  LET kept == {i \in DOMAIN cands : cands[i].role # "" /\ cands[i].content # <<>>}
      nth(k) == CHOOSE i \in kept : Cardinality({j \in kept : j <= i}) = k
  IN /\ Len(turns) = Cardinality(kept)
     /\ \A k \in DOMAIN turns : turns[k] = cands[nth(k)]

\* the payload has one probe present and it is a list
OnlyList(json) ==
  \E p \in PathNames :
    json[p].k = "array" /\ \A q \in PathNames \ {p} : json[q] = NodeAbsent

TheList(json) == json[CHOOSE p \in PathNames : json[p].k = "array"].list

\* C24 (as claimed): the turns read from a list payload, and the turns read
\* from role-marked elements, are the source elements that have a role and
\* a text, one turn for each, in the order of the source; elements without a
\* role or without a text are left out, equal elements are all kept, and an
\* element with an empty role marker has the role assistant
C24_SourceOrderKept ==
  /\ probed /\ OnlyList(html.json) =>
        InSourceOrder(out, [i \in DOMAIN TheList(html.json) |->
                               PayloadTurn(TheList(html.json)[i])])
  /\ parsed.via \in {"static_dom", "render_dom"} =>
        InSourceOrder(parsed.turns, [i \in DOMAIN html.dom |-> ElementTurn(html.dom[i])])

\* C25 (as claimed): the text of a payload element with a parts list is the
\* parts joined with one newline between consecutive parts, and a content
\* that is an object with neither parts nor text is never the content of a
\* turn
C25_TextResolution ==
  probed /\ OnlyList(html.json) =>
    /\ \A i \in DOMAIN TheList(html.json) :
         LET m == TheList(html.json)[i]
             joined == trim(Join(m.content.parts.v, <<"\n">>))
         IN ResolveRole(m) # "" /\ m.content.parts.k = "array" /\ joined # <<>>
              => \E k \in DOMAIN out : out[k] = [role |-> ResolveRole(m), content |-> joined]
    /\ \A k \in DOMAIN out : out[k].content # ToStr(ObjContent(Undefined, Undefined))

TurnRoles == {"user", "assistant", "system", "tool", "unknown"}

\* C26 (as claimed): every turn of a returned conversation has one of the
\* roles user, assistant, system, tool, unknown, whatever the role strings
\* of the payload and of the role markers are
C26_RolesInSet ==
  body.status = 200 => \A k \in DOMAIN body.turns : body.turns[k].role \in TurnRoles

\* the handler called ingestCore with the URL of the call
ReachedCore(c) ==
  /\ calls[c].route \in IngestRoutes
  /\ ~(calls[c].route = "ingest_b64" /\ calls[c].url = EmptyUrl)
  /\ calls[c].pc \notin {"idle", "core", "warmWait", "warmLaunching", "warmContext", "warmPage"}

\* C27: with DRY_RUN set, ingestCore answers every URL with the dry-run
\* result and sends no GET, takes no session and starts no browser; with
\* FORCE_PLAYWRIGHT set and DRY_RUN off, for an allow-listed share link the
\* static stage is not run: no GET is sent before the rendered extraction
\* is entered, and it is entered at once
C27_FlagsShortCircuit ==
  \A c \in Calls :
    ReachedCore(c) =>
      /\ DRY_RUN =>
            /\ calls[c].pc = "done" /\ calls[c].resp = "200_dryrun"
            /\ calls[c].gets = 0 /\ calls[c].fetch = -1 /\ ~calls[c].entered
      /\ ~DRY_RUN /\ FORCE_PLAYWRIGHT /\ calls[c].url = ShareUrl =>
            /\ calls[c].entered /\ calls[c].fetch = -1 /\ calls[c].pc # "fetch"
            /\ calls[c].gets > 0 => calls[c].pc \in {"fetch2", "done"} /\ calls[c].debug

\* with rendering forced, a share link was answered from the rendered page
\* and no GET was sent
C27_Witness ==
  /\ ~DRY_RUN /\ FORCE_PLAYWRIGHT /\ calls[1].url = ShareUrl
  /\ calls[1].pc = "done" /\ calls[1].resp = "200_conversation"
  /\ calls[1].entered /\ calls[1].gets = 0

Waiters == {c \in Calls : calls[c].pc = "sleep"}

\* C28 (as claimed): whenever the gate has free capacity while a call waits
\* at it (a session was released, or was never taken), some waiting call
\* eventually leaves its wait and takes a session
C28_WaiterEventuallyAdmitted ==
  \A S \in SUBSET Calls \ {{}} :
    (Waiters = S /\ INFLIGHT < MAX_CONCURRENCY) ~> ~(S \subseteq Waiters)

\* turns are what one probe of the payload yields on its own
FromOneProbe(turns, json) == \E p \in PathNames : turns = ProbeTurns(json[p])

\* C29: the turns of the schema probes are never the concatenation of the
\* turns of two probes: they are none, or the turns of one probe; the turns
\* of a conversation are the result of one strategy on the page that
\* strategy read; and the rendered stage starts with no turns of the static
\* stage
C29_SingleProbeSingleStrategy ==
  /\ probed => out = <<>> \/ FromOneProbe(out, html.json)
  /\ parsed.via \in {"static_structured", "render_structured"} =>
       parsed.turns # <<>> /\ FromOneProbe(parsed.turns, html.json)
  /\ parsed.via \in {"static_dom", "render_dom"} =>
       parsed.turns = extractFromDomHTML(html.dom)
  /\ parsed.via = "render_scrape" => parsed.turns = ScrapeTurns(html.dom)
  /\ ready.nav =>
       /\ parsed.via \notin {"static_structured", "static_dom"}
       /\ ppc \notin {"respond", "done"} => parsed = NoParsed
  /\ body.status = 200 => body.turns = WithOrd(parsed.turns)

\* two probes are present, the first one yields nothing and the conversation
\* has the turns of the second one only
C29_Witness ==
  \E i, j \in DOMAIN paths :
    /\ i < j /\ probed /\ ppc = "done" /\ body.status = 200
    /\ html.json[paths[i]].k = "array" /\ html.json[paths[i]].list # <<>>
    /\ ProbeTurns(html.json[paths[i]]) = <<>>
    /\ ProbeTurns(html.json[paths[j]]) # <<>>
    /\ body.turns = WithOrd(ProbeTurns(html.json[paths[j]]))

\* C30 (as claimed): while a signal handler is closing the browser, no call
\* is given the browser handle by getBrowser and no call opens a context on
\* the browser
C30_NoSessionWhileClosing ==
  [][proc = "closing" =>
       /\ contexts' <= contexts
       /\ \A c \in Calls : calls'[c].pc = "newContext" => calls[c].pc = "newContext"]_vars

====
